---- MODULE Spec2Model ----
(***************************************************************************)
(* A model of mimic's script compiler (src/ui/compile.rs), its document    *)
(* (src/ui/document.rs) and its instruction interpreter with the frame     *)
(* timer (src/ui/editor.rs).                                               *)
(*                                                                         *)
(* Text is a sequence of characters.  Every character has a display width  *)
(* (unicode-width) and a UTF-8 length, so that positions in display        *)
(* columns, positions in characters and positions in bytes are three       *)
(* different things, as they are in the source.                            *)
(***************************************************************************)
EXTENDS Integers, Sequences, FiniteSets, TLC

VARIABLES
    editor,     \* the Editor struct (doc, cursor, queues, frame_timer, ...)
    state,      \* the DocState the editor renders into
    fs,         \* the file system: path -> content, or NoFile
    pc,         \* "start" | "failed" | "idle" | "loop" (in on_tick's while) |
                \* "panic" | "hang" | "doc" (Document on its own) |
                \* "timer" (Timer on its own) | "cursor" (Editor on a document)
    count,      \* on_tick's local: logical steps left in this tick
    render,     \* on_tick's local: whether the tick draws
    log,        \* history: the runtime instructions executed so far, in order
    op,         \* history: the last operation performed, with its inputs and result
    script,     \* the parsed source instructions handed to compile
    compiled    \* compile's result

vars == <<editor, state, fs, pc, count, render, log, op, script, compiled>>

-----------------------------------------------------------------------------
(* Characters *)

NL == "\n"

\* 'a', 'b': one column, one byte.  'W': a wide character (two columns,
\* three bytes).  'Z': a combining character (no column, two bytes).
Chars == {"a", "b", "W", "Z", NL}

\* Marker annotations: one token stands for one whole marker line of a
\* content string (the line and its newline).
MarkerTokens == {"@1", "@2"}

\* c.width().unwrap_or(0): a control character has no width
CharWidth(c) == CASE c = "W" -> 2
                  [] c = "Z" -> 0
                  [] c = NL -> 0
                  [] OTHER -> 1

\* c.len_utf8()
LenUtf8(c) == CASE c = "W" -> 3
                [] c = "Z" -> 2
                [] OTHER -> 1

RECURSIVE StrLen(_)
\* str::len: the length in bytes
StrLen(s) == IF s = <<>> THEN 0 ELSE LenUtf8(Head(s)) + StrLen(Tail(s))

RECURSIVE StrWidth(_)
\* UnicodeWidthStr::width
StrWidth(s) == IF s = <<>> THEN 0 ELSE CharWidth(Head(s)) + StrWidth(Tail(s))

\* The byte offset at which character i+1 of s starts (i characters precede it)
ByteOff(s, i) == StrLen(SubSeq(s, 1, i))

\* str::is_char_boundary
IsCharBoundary(s, b) == \E i \in 0..Len(s) : ByteOff(s, i) = b

\* The number of characters of s before the char boundary b
CharsBefore(s, b) == CHOOSE i \in 0..Len(s) : ByteOff(s, i) = b

Min(a, b) == IF a < b THEN a ELSE b
Max(a, b) == IF a > b THEN a ELSE b

\* `n as usize` of an i32: a negative number wraps to a number beyond every
\* length the model reaches (2^30 + n stands for 2^64 + n).
AsUsize(n) == IF n < 0 THEN 1073741824 + n ELSE n

Pos(x, y) == [x |-> x, y |-> y]

\* Region::from((pos, size)): `to` is exclusive
RegionFrom(pos, size) ==
    [from |-> pos, to |-> Pos(pos.x + size.width, pos.y + size.height)]

Size(w, h) == [width |-> w, height |-> h]

SizeZERO == Size(0, 0)

-----------------------------------------------------------------------------
(* Markers (src/ui/markers.rs is not part of the sources: modelled from    *)
(* the specification and from document.rs's test insert_offsets_marker)    *)

\* Markers::new: no marker.  Markers are a function from names to rows.
NoMarkers == [n \in {} |-> 0]

RECURSIVE StripMarkers(_)
\* The content without its marker lines
StripMarkers(s) ==
    IF s = <<>> THEN <<>>
    ELSE IF Head(s) \in MarkerTokens THEN StripMarkers(Tail(s))
    ELSE <<Head(s)>> \o StripMarkers(Tail(s))

\* The row, in the stripped content, of the line that follows marker line i
MarkerRow(s, i) == Cardinality({j \in 1..(i - 1) : s[j] = NL})

\* markers::generate: the content without its marker lines, and the markers
\* found (None, here NoMarkers with some = FALSE, when there are none), each
\* bound to the row of the line that followed it.
generate(s) ==
    LET names == {s[i] : i \in {j \in 1..Len(s) : s[j] \in MarkerTokens}}
        last(n) == CHOOSE i \in 1..Len(s) :
                      /\ s[i] = n
                      /\ \A j \in 1..Len(s) : s[j] = n => j <= i
    IN  [text    |-> StripMarkers(s),
         some    |-> names # {},
         markers |-> [n \in names |-> MarkerRow(s, last(n))]]

\* Markers::offset_after: every marker at or after `row` moves down by n
offset_after(markers, row, n) ==
    [m \in DOMAIN markers |->
        IF markers[m] >= row THEN markers[m] + n ELSE markers[m]]

\* Markers::merge: the new markers, their rows counted from `row`, are added
merge(markers, row, new) ==
    [m \in DOMAIN markers \cup DOMAIN new |->
        IF m \in DOMAIN new THEN new[m] + row ELSE markers[m]]

\* Markers::get
lookup_marker(doc, key) ==
    IF key \in DOMAIN doc.markers THEN [some |-> TRUE, row |-> doc.markers[key]]
    ELSE [some |-> FALSE, row |-> 0]

-----------------------------------------------------------------------------
(* Document (src/ui/document.rs) *)

\* Document::new
DocumentNew(s) ==
    LET g == generate(s)
    IN  [text |-> g.text, markers |-> IF g.some THEN g.markers ELSE NoMarkers]

\* The positions of the newlines of a text
Newlines(text) == {i \in 1..Len(text) : text[i] = NL}

\* text.split_inclusive('\n').map(str::len).take(n).sum(), in characters:
\* the first n lines, each with its newline; everything when there are fewer.
LineStart(text, n) ==
    IF n = 0 THEN 0
    ELSE IF Cardinality(Newlines(text)) < n THEN Len(text)
    ELSE CHOOSE i \in Newlines(text) :
            Cardinality({j \in Newlines(text) : j <= i}) = n

\* The end (in characters) of the line that starts after `start` characters
LineEnd(text, start) ==
    LET nls == {i \in Newlines(text) : i > start}
    IN  IF nls = {} THEN Len(text)
        ELSE (CHOOSE i \in nls : \A j \in nls : i <= j) - 1

\* The mutant of char_offset whose loop stops at `x > pos.x`
char_offsetStrict(text, pos) ==
    LET start == LineStart(text, AsUsize(pos.y))
        end   == LineEnd(text, start)
        x(k)  == StrWidth(SubSeq(text, start + 1, start + k))
        hit   == {k \in 1..(end - start) : x(k) > pos.x}
    IN  IF pos.x = 0 THEN start
        ELSE IF hit = {} THEN end
        ELSE start + (CHOOSE k \in hit : \A j \in hit : k <= j)

\* Document::byte_offset, in characters: the characters before the offset
char_offset(text, pos) ==
    LET start == LineStart(text, AsUsize(pos.y))
        end   == LineEnd(text, start)
        \* x after the loop has added the widths of the line's first k chars
        x(k)  == StrWidth(SubSeq(text, start + 1, start + k))
        hit   == {k \in 1..(end - start) : x(k) >= pos.x}
    IN  IF pos.x = 0 THEN start
        ELSE IF hit = {} THEN end
        ELSE start + (CHOOSE k \in hit : \A j \in hit : k <= j)

\* Document::byte_offset
byte_offset(text, pos) == ByteOff(text, char_offset(text, pos))

\* String::insert_str at a byte index (a char boundary, or it panics)
StringInsert(text, index, s) ==
    LET i == CharsBefore(text, index)
    IN  SubSeq(text, 1, i) \o s \o SubSeq(text, i + 1, Len(text))

\* Document::insert_str
insert_str(doc, pos, s) ==
    LET index    == byte_offset(doc.text, pos)
        newlines == Cardinality(Newlines(s))
    IN  [text    |-> StringInsert(doc.text, index, s),
         markers |-> IF newlines > 0
                     THEN offset_after(doc.markers, AsUsize(pos.y), newlines)
                     ELSE doc.markers]

\* Document::get_byte_offset: the byte range start..end
get_byte_offset(text, pos, width) ==
    LET start == char_offset(text, pos)
        \* the width left after the loop has seen k characters from start
        left(k) == Max(0, width - StrWidth(SubSeq(text, start + 1, start + k)))
        brk == {k \in 1..(Len(text) - start) :
                   text[start + k] = NL \/ left(k) = 0}
        end == IF brk = {} THEN start
               ELSE start + (CHOOSE k \in brk : \A j \in brk : k <= j) - 1
    IN  [start |-> ByteOff(text, start), end |-> ByteOff(text, end)]

\* String::drain of a byte range
StringDrain(text, range) ==
    SubSeq(text, 1, CharsBefore(text, range.start))
        \o SubSeq(text, CharsBefore(text, range.end) + 1, Len(text))

RECURSIVE DeleteRows(_, _, _, _)
\* The loop of Document::delete, from row y
DeleteRows(text, region, y, width) ==
    IF y >= region.to.y THEN text
    ELSE DeleteRows(
            StringDrain(text, get_byte_offset(text, Pos(region.from.x, y), width)),
            region, y + 1, width)

\* Document::delete
delete(doc, region) ==
    [doc EXCEPT !.text =
        DeleteRows(doc.text, region, region.from.y,
                   1 + region.to.x - region.from.x)]

\* str::find on text: the byte position of the first match, or -1 (None)
StrFind(hay, needle) ==
    LET at == {i \in 0..(Len(hay) - Len(needle)) :
                  SubSeq(hay, i + 1, i + Len(needle)) = needle}
    IN  IF at = {} THEN -1
        ELSE ByteOff(hay, CHOOSE i \in at : \A j \in at : i <= j)

FindPanic == [tag |-> "panic", x |-> 0]
FindNone == [tag |-> "none", x |-> 0]
FindSome(x) == [tag |-> "some", x |-> x]

RECURSIVE FindLoop(_, _, _, _, _)
\* The while loop of Document::find; a slice that does not start on a char
\* boundary panics.
FindLoop(line, needle, byte_pos, cnt, offset) ==
    IF cnt > 1
    THEN LET next == byte_pos + 1
         IN  IF ~IsCharBoundary(line, next) THEN FindPanic
             ELSE LET rest  == SubSeq(line, CharsBefore(line, next) + 1, Len(line))
                      found == StrFind(rest, needle)
                  IN  IF found < 0 THEN FindNone
                      ELSE FindLoop(line, needle, next + found, cnt - 1, offset)
    ELSE FindSome(StrWidth(SubSeq(line, 1, CharsBefore(line, byte_pos))) + offset)

\* Document::find.  cursor.x is used as a byte index into the text that
\* starts at the cursor's line.
find(doc, cursor, needle, cnt) ==
    LET line_offset == char_offset(doc.text, Pos(0, cursor.y))
        text == SubSeq(doc.text, line_offset + 1, Len(doc.text))
        end  == ByteOff(text, LineEnd(text, 0))
        cx   == AsUsize(cursor.x)
    IN  IF cx > end \/ ~IsCharBoundary(text, cx) THEN FindPanic
        ELSE LET offset == StrWidth(SubSeq(text, 1, CharsBefore(text, cx)))
                 line   == SubSeq(text, CharsBefore(text, cx) + 1, LineEnd(text, 0))
                 first  == StrFind(line, needle)
             IN  IF first < 0 THEN FindNone
                 ELSE FindLoop(line, needle, first, cnt, offset)

\* Document::clear
clear(doc) == [text |-> <<>>, markers |-> NoMarkers]


-----------------------------------------------------------------------------
(* TextBuffer (src/ui/textbuffer.rs is not part of the sources: a FIFO of  *)
(* units, one character each, as the specification describes it)           *)

TextBufferNew == <<>>

\* TextBuffer::push
BufferPush(buffer, content) == buffer \o content

-----------------------------------------------------------------------------
(* Frame timer (src/ui/editor.rs).  A Duration is a number of microseconds. *)

\* Duration::from_millis
FromMillis(ms) == ms * 1000

\* Duration::from_secs
FromSecs(s) == s * 1000000

\* Timer::new sets jitter_ms to 20
JitterMsInit == 20

\* The largest jitter the model lets Random::next return
MaxJitter == 1

\* Random::next(bound) (src/ui/random.rs is not part of the sources): any
\* number of 0..bound, cut at MaxJitter
RandomNext(bound) == 0..Min(bound, MaxJitter)

\* Timer::new
TimerNew(frame_time) ==
    [frame_time  |-> frame_time,
     accumulator |-> 0,
     wait        |-> 0,
     jitter      |-> 0,
     jitter_ms   |-> JitterMsInit]

\* The mutant of apply_jitter that applies the jitter it has just sampled
apply_jitterNow(timer, rnd) ==
    [timer EXCEPT !.wait = timer.wait + FromMillis(rnd), !.jitter = FromMillis(rnd)]

\* Timer::apply_jitter; rnd is what rand.next(jitter_ms) returns
apply_jitter(timer, rnd) ==
    [timer EXCEPT !.wait = timer.wait + timer.jitter, !.jitter = FromMillis(rnd)]

\* The mutant of TickWait for which a wait that equals dt does not absorb it
TickWaitStrict(timer, dt, rnd) ==
    IF timer.wait # 0
    THEN IF timer.wait > dt
         THEN [timer |-> [timer EXCEPT !.wait = timer.wait - dt],
               dt |-> dt, returned |-> TRUE]
         ELSE [timer |-> [timer EXCEPT !.wait = 0],
               dt |-> dt - 0, returned |-> FALSE]
    ELSE [timer |-> apply_jitter(timer, rnd), dt |-> dt, returned |-> FALSE]

\* Timer::tick up to the while loop: the timer, the dt that is left, and
\* whether tick returned 0 at once
TickWait(timer, dt, rnd) ==
    IF timer.wait # 0
    THEN IF timer.wait >= dt
         THEN [timer |-> [timer EXCEPT !.wait = timer.wait - dt],
               dt |-> dt, returned |-> TRUE]
         ELSE \* self.wait = ZERO; dt -= self.wait
              [timer |-> [timer EXCEPT !.wait = 0],
               dt |-> dt - 0, returned |-> FALSE]
    ELSE [timer |-> apply_jitter(timer, rnd), dt |-> dt, returned |-> FALSE]

\* Whether the while loop of Timer::tick never ends: with a frame time of
\* zero, accumulator >= frame_time stays true.
TickHangs(timer, dt, rnd) ==
    /\ ~TickWait(timer, dt, rnd).returned
    /\ timer.frame_time = 0

\* The mutant of tick that empties the accumulator once it has counted
tickDropsResidual(timer, dt, rnd) ==
    LET w   == TickWait(timer, dt, rnd)
        acc == w.timer.accumulator + w.dt
    IN  IF w.returned THEN [timer |-> w.timer, count |-> 0]
        ELSE [timer |-> [w.timer EXCEPT !.accumulator = 0],
              count |-> acc \div timer.frame_time]

\* Timer::tick (when it returns): the timer and the number of steps
tick(timer, dt, rnd) ==
    LET w   == TickWait(timer, dt, rnd)
        acc == w.timer.accumulator + w.dt
    IN  IF w.returned THEN [timer |-> w.timer, count |-> 0]
        ELSE [timer |-> [w.timer EXCEPT !.accumulator = acc % timer.frame_time],
              count |-> acc \div timer.frame_time]

\* The mutant of TimerWait that leaves the timer as it is
TimerWaitIgnored(timer, wait) == timer

\* Timer::wait
TimerWait(timer, wait) == [timer EXCEPT !.wait = wait]


-----------------------------------------------------------------------------
(* Runtime instructions (src/ui/instructions.rs) *)

Jump(x, y) == [op |-> "Jump", x |-> x, y |-> y]
JumpToMarker(name) == [op |-> "JumpToMarker", name |-> name]
Select(w, h) == [op |-> "Select", size |-> Size(w, h)]
LoadTypeBuffer(content) == [op |-> "LoadTypeBuffer", content |-> content]
LoadCommandBuffer(content) == [op |-> "LoadCommandBuffer", content |-> content]
ClearCommandBuffer == [op |-> "ClearCommandBuffer"]
ClearCommandWait == [op |-> "ClearCommandWait"]
CommandClearTimeout(d) == [op |-> "CommandClearTimeout", dur |-> d]
Insert(content) == [op |-> "Insert", content |-> content]
Delete == [op |-> "Delete"]
Wait(d) == [op |-> "Wait", dur |-> d]
Speed(d) == [op |-> "Speed", dur |-> d]
LinePause(d) == [op |-> "LinePause", dur |-> d]
FindInCurrentLine(needle, end_of_word, cnt) ==
    [op |-> "FindInCurrentLine", needle |-> needle,
     end_of_word |-> end_of_word, count |-> cnt]
SetTitle(s) == [op |-> "SetTitle", text |-> s]
SetExtension(s) == [op |-> "SetExtension", text |-> s]
SetJitter(j) == [op |-> "SetJitter", jitter |-> j]
SetTheme(s) == [op |-> "SetTheme", text |-> s]
ShowLineNumbers(b) == [op |-> "ShowLineNumbers", show |-> b]
AddMarkers(row, markers) == [op |-> "AddMarkers", row |-> row, markers |-> markers]
LoadAudio(path) == [op |-> "LoadAudio", path |-> path]
Popup(s) == [op |-> "Popup", text |-> s]
ClosePopup == [op |-> "ClosePopup"]
Clear == [op |-> "Clear"]
WriteBuffer(path) == [op |-> "WriteBuffer", path |-> path]
SetVariable(name, value) == [op |-> "SetVariable", name |-> name, value |-> value]

-----------------------------------------------------------------------------
(* Editor (src/ui/editor.rs) *)

\* The content of a path that is no file
NoFile == "no file"

\* Option<VisualRange>
NoRange == [some |-> FALSE, region |-> RegionFrom(Pos(0, 0), SizeZERO)]
SomeRange(region) == [some |-> TRUE, region |-> region]

\* command_clear_timeout: Duration::from_secs(1)
CommandClearTimeoutInit == 1000000

\* Editor::new
EditorNew(instructions, frame_time) ==
    [doc                   |-> DocumentNew(<<>>),
     cursor                |-> Pos(0, 0),
     selected_range        |-> NoRange,
     instructions          |-> instructions,
     type_buffer           |-> TextBufferNew,
     type_command_buffer   |-> TextBufferNew,
     line_pause            |-> 0,
     extension             |-> "txt",
     theme                 |-> "togglebit",
     audio                 |-> {},
     frame_timer           |-> TimerNew(frame_time),
     command_clear_timeout |-> CommandClearTimeoutInit]

\* DocState::new
DocStateNew ==
    [title             |-> "",
     error             |-> "",
     popup             |-> "",
     command_buffer    |-> <<>>,
     show_cursor       |-> TRUE,
     show_line_numbers |-> FALSE,
     ctx               |-> [n \in {} |-> 0]]

\* What one call of Editor::apply leaves: the editor, the DocState, the file
\* system, the RenderAction, whether it panicked, and the instruction it
\* popped (<<>> when it popped none).
Applied(e, st, f, action, exec) ==
    [editor |-> e, state |-> st, fs |-> f, action |-> action,
     panic |-> FALSE, exec |-> exec]

Panicked(e, st, f, exec) ==
    [editor |-> e, state |-> st, fs |-> f, action |-> "Render",
     panic |-> TRUE, exec |-> exec]

\* Editor::error on the editor: the queue of instructions is cleared
ErrorEditor(e) == [e EXCEPT !.instructions = <<>>]

\* Editor::error on the DocState: the message is set
ErrorState(st, msg) == [st EXCEPT !.error = msg]

\* The mutant of ApplyCommandUnit that emits nothing and keeps the unit
ApplyCommandUnitStuck(e, st, f) == Applied(e, st, f, "Render", <<>>)

\* Editor::apply, the command buffer's next unit
ApplyCommandUnit(e, st, f) ==
    Applied([e EXCEPT !.type_command_buffer = Tail(@)],
            [st EXCEPT !.command_buffer = Append(@, Head(e.type_command_buffer))],
            f, "Render", <<>>)

\* Editor::apply, the type buffer's next unit
ApplyTypeUnit(e, st, f) ==
    LET s   == Head(e.type_buffer)
        e1  == [e EXCEPT !.type_buffer = Tail(@),
                         !.doc = insert_str(@, e.cursor, <<s>>)]
    IN  IF s = NL
        THEN LET e2 == [e1 EXCEPT !.cursor = Pos(0, e.cursor.y + 1)]
             IN  IF e.line_pause > 0
                 THEN Applied([e2 EXCEPT !.frame_timer = TimerWait(@, e.line_pause)],
                              st, f, "NextFrame", <<>>)
                 ELSE Applied(e2, st, f, "Render", <<>>)
        ELSE Applied([e1 EXCEPT !.cursor.x = @ + StrWidth(<<s>>)],
                     st, f, "Render", <<>>)

\* The mutant of PushAddMarkers that pushes to the back of the queue
PushAddMarkersBack(e, g) ==
    IF g.some
    THEN [e EXCEPT !.instructions =
             @ \o <<AddMarkers(AsUsize(e.cursor.y), g.markers)>>]
    ELSE e

\* The AddMarkers that LoadTypeBuffer and Insert push to the front
PushAddMarkers(e, g) ==
    IF g.some
    THEN [e EXCEPT !.instructions =
             <<AddMarkers(AsUsize(e.cursor.y), g.markers)>> \o @]
    ELSE e

\* The mutant of ExecLoadTypeBuffer that registers the markers at once
ExecLoadTypeBufferNow(e, content) ==
    LET g == generate(content)
    IN  [e EXCEPT !.type_buffer = BufferPush(@, g.text),
                  !.doc.markers = IF g.some
                                  THEN merge(@, AsUsize(e.cursor.y), g.markers)
                                  ELSE @]

\* Instruction::LoadTypeBuffer
ExecLoadTypeBuffer(e, content) ==
    LET g == generate(content)
    IN  PushAddMarkers([e EXCEPT !.type_buffer = BufferPush(@, g.text)], g)

\* Instruction::Insert
ExecInsert(e, content) ==
    LET g  == generate(content)
        e1 == [e EXCEPT !.cursor.x = 0]
    IN  PushAddMarkers([e1 EXCEPT !.doc = insert_str(@, e1.cursor, g.text)], g)

\* Instruction::Jump
ExecJump(e, x, y) ==
    [e EXCEPT !.cursor = Pos(Max(e.cursor.x + x, 0), Max(e.cursor.y + y, 0))]

\* Instruction::Select, both arms
ExecSelect(e, size) ==
    IF size = SizeZERO THEN e
    ELSE LET region == RegionFrom(e.cursor, size)
         IN  [e EXCEPT !.cursor = Pos(region.to.x - 1, region.to.y - 1),
                       !.selected_range = SomeRange(region)]

\* Instruction::Delete
ExecDelete(e) ==
    IF e.selected_range.some
    THEN [e EXCEPT !.selected_range = NoRange,
                   !.cursor = e.selected_range.region.from,
                   !.doc = delete(@, e.selected_range.region)]
    ELSE [e EXCEPT !.doc = delete(@, RegionFrom(e.cursor, Size(1, 1)))]

\* Instruction::FindInCurrentLine, given what Document::find returned
ExecFind(e, needle, end_of_word, found) ==
    IF found.tag = "none" THEN e
    ELSE [e EXCEPT !.cursor.x =
             found.x + (IF end_of_word THEN StrWidth(needle) - 1 ELSE 0)]


\* What the collaborators do in one step: whether File::create and
\* write_all succeed, and whether AudioShell::load succeeds
Envs ==
    {[create_ok |-> c, write_ok |-> w, audio_ok |-> a] :
        <<c, w, a>> \in {<<TRUE, TRUE, TRUE>>, <<FALSE, TRUE, TRUE>>,
                         <<TRUE, FALSE, TRUE>>, <<TRUE, TRUE, FALSE>>}}

\* The mutant of ExecWriteBuffer without the arm `if path_buf.exists()`
ExecWriteBufferNoGuard(e, st, f, path, env) ==
    IF ~env.create_ok
    THEN [editor |-> ErrorEditor(e), state |-> ErrorState(st, "failed to create"),
          fs |-> f]
    ELSE IF ~env.write_ok
    THEN [editor |-> ErrorEditor(e), state |-> ErrorState(st, "failed to write"),
          fs |-> [f EXCEPT ![path] = <<>>]]
    ELSE [editor |-> e, state |-> st, fs |-> [f EXCEPT ![path] = e.doc.text]]

\* Instruction::WriteBuffer, both arms.  File::create leaves an empty file;
\* a write_all that fails leaves it empty.
ExecWriteBuffer(e, st, f, path, env) ==
    IF f[path] # NoFile
    THEN [editor |-> ErrorEditor(e),
          state |-> ErrorState(st, "file already exists"), fs |-> f]
    ELSE IF ~env.create_ok
    THEN [editor |-> ErrorEditor(e), state |-> ErrorState(st, "failed to create"),
          fs |-> f]
    ELSE IF ~env.write_ok
    THEN [editor |-> ErrorEditor(e), state |-> ErrorState(st, "failed to write"),
          fs |-> [f EXCEPT ![path] = <<>>]]
    ELSE [editor |-> e, state |-> st, fs |-> [f EXCEPT ![path] = e.doc.text]]

\* Editor::apply, the match on the popped instruction; e is the editor
\* after pop_front
ExecInstruction(e, st, f, i, env) ==
    LET ok(e1) == Applied(e1, st, f, "Render", <<i>>)
    IN  CASE i.op = "LoadCommandBuffer" ->
               Applied([e EXCEPT !.type_command_buffer = BufferPush(@, i.content)],
                       [st EXCEPT !.show_cursor = FALSE], f, "Render", <<i>>)
          [] i.op = "LoadTypeBuffer" -> ok(ExecLoadTypeBuffer(e, i.content))
          [] i.op = "Insert" -> ok(ExecInsert(e, i.content))
          [] i.op = "AddMarkers" ->
               ok([e EXCEPT !.doc.markers = merge(@, i.row, i.markers)])
          [] i.op = "Jump" -> ok(ExecJump(e, i.x, i.y))
          [] i.op = "JumpToMarker" ->
               LET m == lookup_marker(e.doc, i.name)
               IN  IF ~m.some
                   THEN Applied(ErrorEditor(e),
                                ErrorState(st, "marker does not exist"),
                                f, "Render", <<i>>)
                   ELSE ok([e EXCEPT !.cursor = Pos(0, m.row)])
          [] i.op = "Select" -> ok(ExecSelect(e, i.size))
          [] i.op = "Delete" -> ok(ExecDelete(e))
          [] i.op = "Wait" ->
               Applied([e EXCEPT !.frame_timer = TimerWait(@, i.dur)],
                       st, f, "NextFrame", <<i>>)
          [] i.op = "Speed" -> ok([e EXCEPT !.frame_timer.frame_time = i.dur])
          [] i.op = "FindInCurrentLine" ->
               IF i.needle = <<>> THEN ok(e)
               ELSE LET found == find(e.doc, e.cursor, i.needle, i.count)
                    IN  IF found.tag = "panic" THEN Panicked(e, st, f, <<i>>)
                        ELSE ok(ExecFind(e, i.needle, i.end_of_word, found))
          [] i.op = "LinePause" -> ok([e EXCEPT !.line_pause = i.dur])
          [] i.op = "SetTitle" ->
               Applied(e, [st EXCEPT !.title = i.text], f, "Render", <<i>>)
          [] i.op = "SetJitter" -> ok([e EXCEPT !.frame_timer.jitter_ms = i.jitter])
          [] i.op = "ShowLineNumbers" ->
               Applied(e, [st EXCEPT !.show_line_numbers = i.show], f, "Render", <<i>>)
          [] i.op = "Clear" ->
               ok([e EXCEPT !.doc = clear(@), !.cursor = Pos(0, 0)])
          [] i.op = "SetExtension" -> ok([e EXCEPT !.extension = i.text])
          [] i.op = "SetTheme" -> ok([e EXCEPT !.theme = i.text])
          [] i.op = "LoadAudio" ->
               IF env.audio_ok
               THEN ok([e EXCEPT !.audio = @ \cup {i.path}])
               ELSE Applied(ErrorEditor(e), ErrorState(st, "audio"),
                            f, "Render", <<i>>)
          [] i.op = "Popup" ->
               Applied(e, [st EXCEPT !.popup = i.text], f, "Render", <<i>>)
          [] i.op = "ClosePopup" ->
               Applied(e, [st EXCEPT !.popup = ""], f, "Render", <<i>>)
          [] i.op = "WriteBuffer" ->
               LET w == ExecWriteBuffer(e, st, f, i.path, env)
               IN  Applied(w.editor, w.state, w.fs, "Render", <<i>>)
          [] i.op = "ClearCommandBuffer" ->
               Applied(e, [st EXCEPT !.command_buffer = <<>>, !.show_cursor = TRUE],
                       f, "Render", <<i>>)
          [] i.op = "CommandClearTimeout" ->
               ok([e EXCEPT !.command_clear_timeout = i.dur])
          [] i.op = "ClearCommandWait" ->
               ok([e EXCEPT !.instructions = <<Wait(e.command_clear_timeout)>> \o @])
          [] i.op = "SetVariable" ->
               Applied(e,
                       [st EXCEPT !.ctx = [n \in DOMAIN @ \cup {i.name} |->
                                             IF n = i.name THEN i.value ELSE @[n]]],
                       f, "Render", <<i>>)

\* The mutant of apply that pops an instruction before it looks at the type
\* buffer
applyInstructionsFirst(e, st, f, env) ==
    IF e.type_command_buffer # <<>> THEN ApplyCommandUnit(e, st, f)
    ELSE IF e.instructions # <<>>
    THEN ExecInstruction([e EXCEPT !.instructions = Tail(@)], st, f,
                         Head(e.instructions), env)
    ELSE IF e.type_buffer # <<>> THEN ApplyTypeUnit(e, st, f)
    ELSE Applied(e, st, f, "Skip", <<>>)

\* Editor::apply
apply(e, st, f, env) ==
    IF e.type_command_buffer # <<>> THEN ApplyCommandUnit(e, st, f)
    ELSE IF e.type_buffer # <<>> THEN ApplyTypeUnit(e, st, f)
    ELSE IF e.instructions = <<>> THEN Applied(e, st, f, "Skip", <<>>)
    ELSE ExecInstruction([e EXCEPT !.instructions = Tail(@)], st, f,
                         Head(e.instructions), env)


-----------------------------------------------------------------------------
(* Source instructions (the parser's Instruction, Source and Dest, as      *)
(* src/ui/compile.rs matches on them)                                      *)

Str(content) == [kind |-> "Str", v |-> content]
Ident(key) == [kind |-> "Ident", v |-> key]

SrcLoad(path, key) == [op |-> "Load", path |-> path, key |-> key]
SrcFind(needle, cnt) == [op |-> "Find", needle |-> needle, count |-> cnt]
SrcFindEnd(needle, cnt) == [op |-> "FindEnd", needle |-> needle, count |-> cnt]
SrcGotoRelative(row, col) == [op |-> "GotoRelative", row |-> row, col |-> col]
SrcGotoMarker(name) == [op |-> "GotoMarker", name |-> name]
SrcSelect(w, h) == [op |-> "Select", width |-> w, height |-> h]
SrcDelete == [op |-> "Delete"]
SrcType(source, trim_trailing_newline, prefix_newline) ==
    [op |-> "Type", source |-> source,
     trim_trailing_newline |-> trim_trailing_newline,
     prefix_newline |-> prefix_newline]
SrcCommand(source) == [op |-> "Command", source |-> source]
SrcInsert(source) == [op |-> "Insert", source |-> source]
SrcReplace(src, replacement) ==
    [op |-> "Replace", src |-> src, replacement |-> replacement]
SrcWait(seconds) == [op |-> "Wait", seconds |-> seconds]
SrcSpeed(ips) == [op |-> "Speed", ips |-> ips]
SrcLinePause(millis) == [op |-> "LinePause", millis |-> millis]
SrcSetTitle(s) == [op |-> "SetTitle", text |-> s]
SrcSetExtension(s) == [op |-> "SetExtension", text |-> s]
SrcShowLineNumbers(b) == [op |-> "ShowLineNumbers", show |-> b]
SrcJitter(j) == [op |-> "Jitter", jitter |-> j]
SrcSetTheme(s) == [op |-> "SetTheme", text |-> s]
SrcLoadAudio(path) == [op |-> "LoadAudio", path |-> path]
SrcClear == [op |-> "Clear"]
SrcPopup(source) == [op |-> "Popup", source |-> source]
SrcClosePopup == [op |-> "ClosePopup"]
SrcWriteBuffer(path) == [op |-> "WriteBuffer", path |-> path]
SrcCommandClearTimeout(ms) == [op |-> "CommandClearTimeout", timeout |-> ms]

-----------------------------------------------------------------------------
(* compile (src/ui/compile.rs) *)

\* Context (src/ui/context.rs is not part of the sources): name -> content
ContextNew == [k \in {} |-> <<>>]

\* Context::set
ContextSet(ctx, key, content) ==
    [k \in DOMAIN ctx \cup {key} |-> IF k = key THEN content ELSE ctx[k]]

\* A Source resolved against the context: `content` for Source::Str,
\* `context.load(key)?` for Source::Ident, which fails on an unbound name
Resolve(source, ctx) ==
    IF source.kind = "Str" THEN [ok |-> TRUE, v |-> source.v]
    ELSE IF source.v \in DOMAIN ctx THEN [ok |-> TRUE, v |-> ctx[source.v]]
    ELSE [ok |-> FALSE, v |-> <<>>]

Lowered(instructions) == [ok |-> TRUE, instructions |-> instructions]
LowerFailed == [ok |-> FALSE, instructions |-> <<>>]

\* (1000_000.0 / ips) as u64: a float-to-integer cast saturates, so a rate
\* of 0 gives u64::MAX (here the largest number of the model)
SpeedMicros(ips) == IF ips = 0 THEN 2147483647 ELSE 1000000 \div ips

\* The mutant of LowerReplace that selects as many columns as the needle
\* has characters
LowerReplaceCharCount(inst, ctx) ==
    LET r == Resolve(inst.replacement, ctx)
    IN  IF ~r.ok THEN LowerFailed
        ELSE Lowered(<<FindInCurrentLine(inst.src, FALSE, 1),
                       Select(Len(inst.src), 1),
                       Delete,
                       LoadTypeBuffer(r.v)>>)

\* The arm of compile's match for Replace
LowerReplace(inst, ctx) ==
    LET r == Resolve(inst.replacement, ctx)
    IN  IF ~r.ok THEN LowerFailed
        ELSE Lowered(<<FindInCurrentLine(inst.src, FALSE, 1),
                       Select(StrWidth(inst.src), 1),
                       Delete,
                       LoadTypeBuffer(r.v)>>)

\* The arm of compile's match for Type
LowerType(inst, ctx) ==
    LET r == Resolve(inst.source, ctx)
        content == IF inst.trim_trailing_newline /\ r.v # <<>>
                      /\ r.v[Len(r.v)] = NL
                   THEN SubSeq(r.v, 1, Len(r.v) - 1)
                   ELSE r.v
    IN  IF ~r.ok THEN LowerFailed
        ELSE Lowered((IF inst.prefix_newline THEN <<Insert(<<NL>>)>> ELSE <<>>)
                        \o <<LoadTypeBuffer(content)>>)

\* The arms of compile's match other than Load: the runtime instructions
\* one source instruction is lowered to
Lower(inst, ctx) ==
    CASE inst.op = "Find" ->
           Lowered(<<FindInCurrentLine(inst.needle, FALSE, inst.count)>>)
      [] inst.op = "FindEnd" ->
           Lowered(<<FindInCurrentLine(inst.needle, TRUE, inst.count)>>)
      [] inst.op = "GotoRelative" -> Lowered(<<Jump(inst.col, inst.row)>>)
      [] inst.op = "GotoMarker" -> Lowered(<<JumpToMarker(inst.name)>>)
      [] inst.op = "Select" -> Lowered(<<Select(inst.width, inst.height)>>)
      [] inst.op = "Delete" -> Lowered(<<Delete>>)
      [] inst.op = "Type" -> LowerType(inst, ctx)
      [] inst.op = "Command" ->
           LET r == Resolve(inst.source, ctx)
           IN  IF ~r.ok THEN LowerFailed
               ELSE Lowered(<<LoadCommandBuffer(r.v), ClearCommandWait,
                              ClearCommandBuffer>>)
      [] inst.op = "Insert" ->
           LET r == Resolve(inst.source, ctx)
           IN  IF ~r.ok THEN LowerFailed ELSE Lowered(<<Insert(r.v)>>)
      [] inst.op = "Replace" -> LowerReplace(inst, ctx)
      [] inst.op = "Wait" -> Lowered(<<Wait(FromSecs(inst.seconds))>>)
      [] inst.op = "Speed" -> Lowered(<<Speed(SpeedMicros(inst.ips))>>)
      [] inst.op = "LinePause" -> Lowered(<<LinePause(FromMillis(inst.millis))>>)
      [] inst.op = "SetTitle" -> Lowered(<<SetTitle(inst.text)>>)
      [] inst.op = "SetExtension" -> Lowered(<<SetExtension(inst.text)>>)
      [] inst.op = "ShowLineNumbers" -> Lowered(<<ShowLineNumbers(inst.show)>>)
      [] inst.op = "Jitter" -> Lowered(<<SetJitter(inst.jitter)>>)
      [] inst.op = "SetTheme" -> Lowered(<<SetTheme(inst.text)>>)
      [] inst.op = "LoadAudio" -> Lowered(<<LoadAudio(inst.path)>>)
      [] inst.op = "Clear" -> Lowered(<<Clear>>)
      [] inst.op = "Popup" ->
           LET r == Resolve(inst.source, ctx)
           IN  IF ~r.ok THEN LowerFailed ELSE Lowered(<<Popup(r.v)>>)
      [] inst.op = "ClosePopup" -> Lowered(<<ClosePopup>>)
      [] inst.op = "WriteBuffer" -> Lowered(<<WriteBuffer(inst.path)>>)
      [] inst.op = "CommandClearTimeout" ->
           Lowered(<<CommandClearTimeout(FromMillis(inst.timeout))>>)

CompileOk(instructions) == [ok |-> TRUE, error |-> "", instructions |-> instructions]
CompileErr(error) == [ok |-> FALSE, error |-> error, instructions |-> <<>>]

RECURSIVE CompileLoopLenient(_, _, _, _)
\* The mutant of CompileLoop that goes on after a Load it could not read
CompileLoopLenient(rest, context, instructions, files) ==
    IF rest = <<>> THEN CompileOk(instructions)
    ELSE LET inst == Head(rest)
         IN  IF inst.op = "Load"
             THEN IF files[inst.path] = NoFile
                  THEN CompileLoopLenient(Tail(rest), context, instructions, files)
                  ELSE CompileLoopLenient(Tail(rest),
                                   ContextSet(context, inst.key, files[inst.path]),
                                   instructions, files)
             ELSE LET l == Lower(inst, context)
                  IN  IF ~l.ok THEN CompileErr("Variable")
                      ELSE CompileLoopLenient(Tail(rest), context,
                                       instructions \o l.instructions, files)

RECURSIVE CompileLoop(_, _, _, _)
\* The for loop of compile over the instructions that are left; `?` returns
\* the error at once
CompileLoop(rest, context, instructions, files) ==
    IF rest = <<>> THEN CompileOk(instructions)
    ELSE LET inst == Head(rest)
         IN  IF inst.op = "Load"
             THEN IF files[inst.path] = NoFile THEN CompileErr("Import")
                  ELSE CompileLoop(Tail(rest),
                                   ContextSet(context, inst.key, files[inst.path]),
                                   instructions, files)
             ELSE LET l == Lower(inst, context)
                  IN  IF ~l.ok THEN CompileErr("Variable")
                      ELSE CompileLoop(Tail(rest), context,
                                       instructions \o l.instructions, files)

\* compile
compile(parsed_instructions, files) ==
    CompileLoop(parsed_instructions, ContextNew, <<>>, files)


-----------------------------------------------------------------------------
(* The program: main compiles the script and runs the editor, which the    *)
(* host ticks (src/main.rs, Editor::on_tick)                               *)

\* The paths of the model: "f" and "h" are files when the program starts,
\* "g" is not
Paths == {"f", "g", "h"}

InitFs ==
    [p \in Paths |-> CASE p = "f" -> <<"a", NL>>
                      [] p = "h" -> <<"@1", "b">>
                      [] OTHER -> NoFile]

\* The frame time ui::run gives Editor::new, and the elapsed times the host
\* passes to on_tick
FrameTimes == {FromMillis(500)}
Dts == {FromMillis(500), FromSecs(1)}

NoOp == [kind |-> "none"]

NotCompiled == [ok |-> FALSE, error |-> "not compiled", instructions |-> <<>>]

\* The state before main has compiled `s`
InitWith(s) ==
    /\ script = s
    /\ compiled = NotCompiled
    /\ \E ft \in FrameTimes : editor = EditorNew(<<>>, ft)
    /\ state = DocStateNew
    /\ fs = InitFs
    /\ pc = "start"
    /\ count = 0
    /\ render = FALSE
    /\ log = <<>>
    /\ op = NoOp

\* main: compile(instructions)?, then ui::run builds the Editor
Start ==
    /\ pc = "start"
    /\ compiled' = compile(script, fs)
    /\ IF compiled'.ok
       THEN /\ editor' = EditorNew(compiled'.instructions, editor.frame_timer.frame_time)
            /\ pc' = "idle"
       ELSE /\ editor' = editor
            /\ pc' = "failed"
    /\ UNCHANGED <<state, fs, count, render, log, op, script>>

\* Editor::on_tick up to its while loop: the timer is ticked.  With a frame
\* time of zero Timer::tick does not return.
Tick(dt, rnd) ==
    /\ pc = "idle"
    /\ IF TickHangs(editor.frame_timer, dt, rnd)
       THEN /\ pc' = "hang"
            /\ UNCHANGED <<editor, count, render>>
       ELSE LET t == tick(editor.frame_timer, dt, rnd)
            IN  /\ editor' = [editor EXCEPT !.frame_timer = t.timer]
                /\ count' = t.count
                /\ render' = FALSE
                /\ pc' = IF t.count > 0 THEN "loop" ELSE "idle"
    /\ UNCHANGED <<state, fs, log, op, script, compiled>>

\* The mutant of ApplyStep whose loop does not break on NextFrame
ApplyStepNoBreak(env) ==
    /\ pc = "loop"
    /\ count > 0
    /\ LET r == apply(editor, state, fs, env)
       IN  /\ editor' = r.editor
           /\ state' = r.state
           /\ fs' = r.fs
           /\ log' = log \o r.exec
           /\ IF r.panic
              THEN pc' = "panic" /\ UNCHANGED <<count, render>>
              ELSE /\ pc' = "loop"
                   /\ count' = count - 1
                   /\ render' = (render \/ r.action # "Skip")
    /\ UNCHANGED <<op, script, compiled>>

\* One turn of on_tick's while loop: one call of Editor::apply
ApplyStep(env) ==
    /\ pc = "loop"
    /\ count > 0
    /\ LET r == apply(editor, state, fs, env)
       IN  /\ editor' = r.editor
           /\ state' = r.state
           /\ fs' = r.fs
           /\ log' = log \o r.exec
           /\ IF r.panic
              THEN pc' = "panic" /\ UNCHANGED <<count, render>>
              ELSE /\ pc' = "loop"
                   /\ count' = IF r.action = "NextFrame" THEN 0 ELSE count - 1
                   /\ render' = (render \/ r.action # "Skip")
    /\ UNCHANGED <<op, script, compiled>>

\* The end of on_tick: update_cursor and draw when something was applied; a
\* highlighter that fails makes draw call Editor::error
EndTick(highlight_ok) ==
    /\ pc = "loop"
    /\ count = 0
    /\ pc' = "idle"
    /\ IF render /\ ~highlight_ok
       THEN /\ editor' = ErrorEditor(editor)
            /\ state' = ErrorState(state, "highlight")
       ELSE UNCHANGED <<editor, state>>
    /\ UNCHANGED <<fs, count, render, log, op, script, compiled>>

\* The collaborators whose outcome the next call of apply can see
EnvsOf(e) ==
    IF /\ e.type_command_buffer = <<>>
       /\ e.type_buffer = <<>>
       /\ e.instructions # <<>>
       /\ Head(e.instructions).op \in {"WriteBuffer", "LoadAudio"}
    THEN Envs
    ELSE {[create_ok |-> TRUE, write_ok |-> TRUE, audio_ok |-> TRUE]}

Next ==
    \/ Start
    \/ \E dt \in Dts : \E rnd \in RandomNext(editor.frame_timer.jitter_ms) : Tick(dt, rnd)
    \/ \E env \in EnvsOf(editor) : ApplyStep(env)
    \/ \E h \in BOOLEAN : EndTick(h)


-----------------------------------------------------------------------------
(* Scripts *)

\* Contents: two rows with a wide character, and two rows with two markers
DocWide == <<"a", "b", NL, "W", "a">>
DocMarked == <<"@1", "a", "b", NL, "@2", "b">>

\* How the scripts of Spec begin, go on and end
Openings ==
    { <<SrcType(Str(<<"a", NL, "b">>), FALSE, FALSE)>>,
      <<SrcType(Str(DocMarked), FALSE, TRUE)>>,
      <<SrcInsert(Str(DocMarked))>>,
      <<SrcLinePause(500), SrcType(Str(<<"a", NL, "b">>), FALSE, FALSE)>>,
      <<SrcCommand(Str(<<"a", "b">>))>> }

Events ==
    { SrcWriteBuffer("f"), SrcWriteBuffer("g"), SrcGotoMarker("@1"),
      SrcGotoMarker("@2"), SrcLoadAudio("g"), SrcCommand(Str(<<"b">>)),
      SrcWait(1), SrcClear, SrcCommandClearTimeout(500) }

Endings ==
    { <<SrcType(Str(<<"@2", "W">>), FALSE, FALSE)>>,
      <<SrcDelete>>,
      <<SrcCommand(Str(<<"a">>)), SrcInsert(Str(<<"b">>))>> }

Scripts == {o \o <<e>> \o x : o \in Openings, e \in Events, x \in Endings}

Init == \E s \in Scripts : InitWith(s)

Spec == Init /\ [][Next]_vars


-----------------------------------------------------------------------------
(* Scripts that edit: a content is inserted, the cursor is moved, a region *)
(* may be selected, and one directive acts                                 *)

Contents == {DocMarked, DocWide}

\* goto by rows and columns: on a character, beyond the end of the line,
\* inside the second row, and below the last row
Gotos ==
    { SrcGotoRelative(0, 0), SrcGotoRelative(0, 3), SrcGotoRelative(1, 1),
      SrcGotoRelative(2, 0) }

Selections ==
    { <<>>, <<SrcSelect(0, 0)>>, <<SrcSelect(2, 1)>>, <<SrcSelect(1, 0)>>,
      <<SrcSelect(2, 1), SrcSelect(0, 0)>> }

Directives ==
    { SrcDelete, SrcFind(<<>>, 1), SrcFind(<<"b">>, 1), SrcFind(<<"Z">>, 1),
      SrcFindEnd(<<"a", "b">>, 1), SrcFind(<<"W">>, 2),
      SrcInsert(Str(<<"a", NL, NL>>)), SrcType(Str(<<NL, "b">>), FALSE, FALSE),
      SrcReplace(<<"b">>, Str(<<"W">>)) }

EditScripts ==
    { <<SrcInsert(Str(c))>> \o <<g>> \o s \o <<d>> :
        c \in Contents, g \in Gotos, s \in Selections, d \in Directives }

InitEdit == \E s \in EditScripts : InitWith(s)

SpecEdit == InitEdit /\ [][Next]_vars

-----------------------------------------------------------------------------
(* The document on its own: Document::new on a text, then one operation *)

\* The longest text Document::new is given
MaxDocLen == 4

RECURSIVE SeqsUpTo(_, _)
\* The sequences over S of length n or less
SeqsUpTo(S, n) ==
    IF n = 0 THEN {<<>>}
    ELSE LET shorter == SeqsUpTo(S, n - 1)
         IN  shorter \cup {Append(s, c) : s \in shorter, c \in S}

DocTexts == SeqsUpTo(Chars, MaxDocLen)

\* The regions Document::delete is given: origin, then size
DocRegions ==
    {RegionFrom(Pos(c, r), Size(w, h)) :
        c \in 0..2, r \in 0..1, w \in 1..2, h \in 1..2}

InitDoc ==
    /\ script = <<>>
    /\ compiled = NotCompiled
    /\ \E text \in DocTexts : \E ft \in FrameTimes :
          editor = [EditorNew(<<>>, ft) EXCEPT !.doc = DocumentNew(text)]
    /\ state = DocStateNew
    /\ fs = InitFs
    /\ pc = "doc"
    /\ count = 0
    /\ render = FALSE
    /\ log = <<>>
    /\ op = NoOp

\* Document::delete
DocDelete(region) ==
    /\ pc = "doc"
    /\ op = NoOp
    /\ editor' = [editor EXCEPT !.doc = delete(@, region)]
    /\ op' = [kind |-> "delete", region |-> region, before |-> editor.doc]
    /\ UNCHANGED <<state, fs, pc, count, render, log, script, compiled>>

NextDoc == \E region \in DocRegions : DocDelete(region)

SpecDoc == InitDoc /\ [][NextDoc]_vars

-----------------------------------------------------------------------------
(* compile on its own: main compiles a script *)

\* The longest script compile is given
MaxScriptLen == 3

SourceAlphabet ==
    { SrcLoad("f", "x"), SrcLoad("g", "x"), SrcLoad("h", "x"), SrcLoad("f", "y"),
      SrcType(Ident("x"), TRUE, TRUE), SrcCommand(Ident("y")),
      SrcInsert(Ident("x")), SrcReplace(<<"a">>, Ident("y")), SrcPopup(Ident("x")),
      SrcType(Str(<<"b">>), FALSE, FALSE), SrcDelete,
      SrcReplace(<<"W">>, Str(<<"a">>)) }

InitCompile == \E s \in SeqsUpTo(SourceAlphabet, MaxScriptLen) : InitWith(s)

NextCompile == Start

SpecCompile == InitCompile /\ [][NextCompile]_vars

-----------------------------------------------------------------------------
(* The editor on a document: a text and a cursor, then byte_offset at the  *)
(* cursor, or one instruction (Delete may follow a Select, and the units   *)
(* of a LoadTypeBuffer are typed one call of apply after the other)        *)

\* The longest text of these editors
MaxCursorLen == 3

CursorTexts == SeqsUpTo(Chars, MaxCursorLen)

\* The cursors a Jump can reach
CursorPositions == {Pos(c, r) : c \in 0..3, r \in 0..2}

CursorInstructions ==
    { FindInCurrentLine(n, e, c) :
        n \in {<<"a">>, <<"W">>, <<"b", "a">>}, e \in BOOLEAN, c \in 1..2 }
    \cup { Delete, Select(1, 1), Select(2, 1), Select(2, 2),
           LoadTypeBuffer(<<"a", "b">>), LoadTypeBuffer(<<"b", NL, "a">>),
           LoadTypeBuffer(<<"W", "a">>) }

InitCursor ==
    /\ script = <<>>
    /\ compiled = NotCompiled
    /\ \E text \in CursorTexts : \E p \in CursorPositions : \E ft \in FrameTimes :
          editor = [EditorNew(<<>>, ft) EXCEPT !.doc = DocumentNew(text),
                                                !.cursor = p]
    /\ state = DocStateNew
    /\ fs = InitFs
    /\ pc = "cursor"
    /\ count = 0
    /\ render = FALSE
    /\ log = <<>>
    /\ op = NoOp

\* Document::byte_offset at the cursor
CursorByteOffset ==
    /\ pc = "cursor"
    /\ op = NoOp
    /\ op' = [kind |-> "byte_offset", before |-> editor,
              result |-> byte_offset(editor.doc.text, editor.cursor)]
    /\ UNCHANGED <<editor, state, fs, pc, count, render, log, script, compiled>>

\* Editor::apply with instruction i at the front of the queue
CursorExec(i) ==
    /\ pc = "cursor"
    /\ \/ op = NoOp
       \/ op.kind = "exec" /\ op.inst.op = "Select" /\ i = Delete
    /\ editor.type_buffer = <<>>
    /\ LET r == apply([editor EXCEPT !.instructions = <<i>>], state, fs,
                      CHOOSE env \in Envs : env.create_ok /\ env.write_ok /\ env.audio_ok)
       IN  /\ editor' = r.editor
           /\ state' = r.state
           /\ pc' = IF r.panic THEN "panic" ELSE "cursor"
           /\ log' = log \o r.exec
           /\ op' = [kind |-> "exec", before |-> editor, inst |-> i]
    /\ UNCHANGED <<fs, count, render, script, compiled>>

\* Editor::apply while the type buffer holds a unit
CursorTypeUnit ==
    /\ pc = "cursor"
    /\ editor.type_buffer # <<>>
    /\ LET r == apply(editor, state, fs,
                      CHOOSE env \in Envs : env.create_ok /\ env.write_ok /\ env.audio_ok)
       IN  /\ editor' = r.editor
           /\ state' = r.state
    /\ UNCHANGED <<fs, pc, count, render, log, op, script, compiled>>

NextCursor ==
    \/ CursorByteOffset
    \/ \E i \in CursorInstructions : CursorExec(i)
    \/ CursorTypeUnit

SpecCursor == InitCursor /\ [][NextCursor]_vars

-----------------------------------------------------------------------------
(* The frame timer on its own: Timer::new, then calls of tick, of wait and *)
(* of the assignment to jitter_ms that SetJitter makes                     *)

\* The most calls of Timer::tick in one run of the timer
MaxTicks == 3

\* Frame times, elapsed times and waits, in microseconds; a jitter of one
\* millisecond is as long as the shortest frame
TimerFrameTimes == {1000, 2000}
TimerDts == {500, 1000, 1500}
TimerWaits == {0, 500, 1000, 2000}

\* The history of the timer: the last call with its inputs and result, the
\* number of ticks, and, over the ticks made since the timer stood with an
\* empty accumulator, no wait and a jitter bound of 0 (`run`), the jitter
\* it held then, the time elapsed and the steps returned
TimerHistory(kind, before, dt, n_count, n, run, held, elapsed, steps) ==
    [kind |-> kind, before |-> before, dt |-> dt, count |-> n_count, n |-> n,
     run |-> run, held |-> held, elapsed |-> elapsed, steps |-> steps]

InitTimer ==
    /\ script = <<>>
    /\ compiled = NotCompiled
    /\ \E ft \in TimerFrameTimes : editor = EditorNew(<<>>, ft)
    /\ state = DocStateNew
    /\ fs = InitFs
    /\ pc = "timer"
    /\ count = 0
    /\ render = FALSE
    /\ log = <<>>
    /\ op = TimerHistory("new", editor.frame_timer, 0, 0, 0, FALSE, 0, 0, 0)

\* Timer::tick(dt)
TimerTick(dt, rnd) ==
    /\ pc = "timer"
    /\ op.n < MaxTicks
    /\ LET before == editor.frame_timer
           t      == tick(before, dt, rnd)
           run    == \/ op.run
                     \/ /\ before.accumulator = 0
                        /\ before.wait = 0
                        /\ before.jitter_ms = 0
       IN  /\ editor' = [editor EXCEPT !.frame_timer = t.timer]
           /\ op' = TimerHistory("tick", before, dt, t.count, op.n + 1, run,
                                 IF op.run THEN op.held ELSE before.jitter,
                                 (IF op.run THEN op.elapsed ELSE 0) + dt,
                                 (IF op.run THEN op.steps ELSE 0) + t.count)
    /\ UNCHANGED <<state, fs, pc, count, render, log, script, compiled>>

\* Timer::wait(wait), as Wait and a line pause call it
TimerStartWait(wait) ==
    /\ pc = "timer"
    /\ editor' = [editor EXCEPT !.frame_timer = TimerWait(@, wait)]
    /\ op' = TimerHistory("wait", editor.frame_timer, 0, 0, op.n, FALSE, 0, 0, 0)
    /\ UNCHANGED <<state, fs, pc, count, render, log, script, compiled>>

\* self.frame_timer.jitter_ms = jitter, as SetJitter does
TimerSetJitter(jitter) ==
    /\ pc = "timer"
    /\ editor' = [editor EXCEPT !.frame_timer.jitter_ms = jitter]
    /\ op' = TimerHistory("jitter", editor.frame_timer, 0, 0, op.n, FALSE, 0, 0, 0)
    /\ UNCHANGED <<state, fs, pc, count, render, log, script, compiled>>

NextTimer ==
    \/ \E dt \in TimerDts : \E rnd \in RandomNext(editor.frame_timer.jitter_ms) :
          TimerTick(dt, rnd)
    \/ \E wait \in TimerWaits : TimerStartWait(wait)
    \/ \E jitter \in {0, JitterMsInit} : TimerSetJitter(jitter)

SpecTimer == InitTimer /\ [][NextTimer]_vars

-----------------------------------------------------------------------------
(* Scripts with commands, played with a history of the command in flight  *)

\* How the scripts with a command begin and end
CommandOpenings ==
    { <<>>,
      <<SrcCommandClearTimeout(500)>>,
      <<SrcType(Str(<<"a">>), FALSE, FALSE)>>,
      <<SrcLinePause(500), SrcType(Str(<<"a", NL, "b">>), FALSE, FALSE)>> }

CommandEndings ==
    { <<SrcInsert(Str(<<"b">>))>>,
      <<SrcCommandClearTimeout(500), SrcCommand(Str(<<"a">>))>>,
      <<SrcType(Str(<<"b">>), FALSE, FALSE), SrcDelete>> }

CommandScripts ==
    { o \o <<SrcCommand(Str(<<"a", "b">>))>> \o x :
        o \in CommandOpenings, x \in CommandEndings }

\* The history of the command in flight: whether a LoadCommandBuffer has
\* executed and its ClearCommandBuffer has not, the command's content, the
\* document when it was loaded, the command_clear_timeout when
\* ClearCommandWait executed, the wait the timer was given by the Wait that
\* followed, and the time elapsed since, counted until it covers that wait
NoCommand ==
    [kind |-> "command", active |-> FALSE, content |-> <<>>,
     doc |-> DocumentNew(<<>>), timeout |-> -1, started |-> -1, elapsed |-> 0]

InitCommand ==
    /\ script \in CommandScripts
    /\ compiled = NotCompiled
    /\ \E ft \in FrameTimes : editor = EditorNew(<<>>, ft)
    /\ state = DocStateNew
    /\ fs = InitFs
    /\ pc = "start"
    /\ count = 0
    /\ render = FALSE
    /\ log = <<>>
    /\ op = NoCommand

\* Editor::on_tick up to its while loop
CommandTick(dt, rnd) ==
    /\ pc = "idle"
    /\ ~TickHangs(editor.frame_timer, dt, rnd)
    /\ LET t == tick(editor.frame_timer, dt, rnd)
       IN  /\ editor' = [editor EXCEPT !.frame_timer = t.timer]
           /\ count' = t.count
           /\ render' = FALSE
           /\ pc' = IF t.count > 0 THEN "loop" ELSE "idle"
    /\ op' = IF op.active /\ op.started >= 0 /\ op.elapsed < op.started
             THEN [op EXCEPT !.elapsed = @ + dt]
             ELSE op
    /\ UNCHANGED <<state, fs, log, script, compiled>>

\* The history after instruction i has executed and left the editor e1
CommandHistory(i, e1) ==
    CASE i.op = "LoadCommandBuffer" ->
           [NoCommand EXCEPT !.active = TRUE, !.content = i.content,
                             !.doc = editor.doc]
      [] i.op = "ClearCommandWait" /\ op.active ->
           [op EXCEPT !.timeout = editor.command_clear_timeout]
      [] i.op = "Wait" /\ op.active ->
           [op EXCEPT !.started = e1.frame_timer.wait, !.elapsed = 0]
      [] i.op = "ClearCommandBuffer" -> [op EXCEPT !.active = FALSE]
      [] OTHER -> op

\* One turn of on_tick's while loop: one call of Editor::apply
CommandApply ==
    /\ pc = "loop"
    /\ count > 0
    /\ LET r == apply(editor, state, fs,
                      CHOOSE env \in Envs : env.create_ok /\ env.write_ok /\ env.audio_ok)
       IN  /\ editor' = r.editor
           /\ state' = r.state
           /\ fs' = r.fs
           /\ log' = log \o r.exec
           /\ op' = IF r.exec = <<>> THEN op ELSE CommandHistory(r.exec[1], r.editor)
           /\ IF r.panic
              THEN pc' = "panic" /\ UNCHANGED <<count, render>>
              ELSE /\ pc' = "loop"
                   /\ count' = IF r.action = "NextFrame" THEN 0 ELSE count - 1
                   /\ render' = (render \/ r.action # "Skip")
    /\ UNCHANGED <<script, compiled>>

\* The end of on_tick
CommandEndTick(highlight_ok) ==
    /\ pc = "loop"
    /\ count = 0
    /\ pc' = "idle"
    /\ IF render /\ ~highlight_ok
       THEN /\ editor' = ErrorEditor(editor)
            /\ state' = ErrorState(state, "highlight")
       ELSE UNCHANGED <<editor, state>>
    /\ UNCHANGED <<fs, count, render, log, op, script, compiled>>

NextCommand ==
    \/ Start
    \/ \E dt \in Dts : \E rnd \in RandomNext(editor.frame_timer.jitter_ms) :
          CommandTick(dt, rnd)
    \/ CommandApply
    \/ \E h \in BOOLEAN : CommandEndTick(h)

SpecCommand == InitCommand /\ [][NextCommand]_vars

-----------------------------------------------------------------------------
(* Scripts that bring content with markers to a place the cursor was moved *)
(* to: a content is inserted, the cursor jumps, a marked content follows   *)

\* goto by rows and columns: the first row, inside the second row, the row
\* below the last row, and two rows below it
MarkerGotos ==
    { SrcGotoRelative(0, 0), SrcGotoRelative(1, 1), SrcGotoRelative(2, 0),
      SrcGotoRelative(3, 0) }

MarkedDirectives ==
    { <<SrcInsert(Str(<<"@2", "b">>))>>,
      <<SrcType(Str(<<"@1", "a", NL, "b">>), FALSE, FALSE)>>,
      <<SrcType(Str(<<"@2", "W">>), FALSE, TRUE)>>,
      <<SrcInsert(Str(<<"@1", "a", NL>>)), SrcDelete>>,
      <<SrcType(Str(<<NL, "b">>), FALSE, FALSE)>> }

MarkerScripts ==
    { <<SrcInsert(Str(c))>> \o <<g>> \o d :
        c \in Contents, g \in MarkerGotos, d \in MarkedDirectives }

InitMarkers == \E s \in MarkerScripts : InitWith(s)

SpecMarkers == InitMarkers /\ [][Next]_vars

-----------------------------------------------------------------------------
(* Scripts that set the speed and then type *)

\* The rates of a speed instruction: slow ones, and one beyond a million
\* instructions per second
SpeedRates == {1, 2, 4, 2000000}

SpeedScripts ==
    { <<SrcSpeed(n), SrcType(Str(<<"a", "b">>), FALSE, FALSE)>> : n \in SpeedRates }

InitSpeed == \E s \in SpeedScripts : InitWith(s)

SpecSpeed == InitSpeed /\ [][Next]_vars

-----------------------------------------------------------------------------
(* Scripts that replace: two rows are inserted, the cursor jumps, and a   *)
(* needle is replaced                                                      *)

ReplaceNeedles == {<<"b">>, <<"a">>, <<"a", "a">>}

ReplaceScripts ==
    { <<SrcInsert(Str(<<"a", "b", NL, "b", "a", NL>>)),
        SrcGotoRelative(r, c),
        SrcReplace(n, Str(<<"W">>))>> :
        r \in 0..1, c \in 0..2, n \in ReplaceNeedles }

InitReplace == \E s \in ReplaceScripts : InitWith(s)

SpecReplace == InitReplace /\ [][Next]_vars

-----------------------------------------------------------------------------
(* The host keeps calling on_tick, and a call of on_tick runs to its end:  *)
(* a step that can be taken is taken                                       *)

\* Scripts with a line pause and a wait, with a command and its deferred
\* clear, with markers, and with an error that empties the queue (the file
\* f exists); the jitter is the one Timer::new sets, or none
LiveScripts ==
    { <<SrcLinePause(500), SrcType(Str(<<"a", NL, "b">>), FALSE, FALSE),
        SrcWait(1), SrcDelete>>,
      <<SrcJitter(0), SrcCommand(Str(<<"a", "b">>)), SrcInsert(Str(<<"b">>))>>,
      <<SrcType(Str(DocMarked), FALSE, TRUE), SrcGotoMarker("@1"),
        SrcWriteBuffer("g")>>,
      <<SrcType(Str(<<"a", "b">>), FALSE, FALSE), SrcWriteBuffer("f"),
        SrcWait(1), SrcDelete>> }

InitLive == \E s \in LiveScripts : InitWith(s)

SpecLive == InitLive /\ [][Next]_vars /\ WF_vars(Next)

-----------------------------------------------------------------------------
(* What the claims speak of *)

\* The row of character i of a text
RowOf(text, i) == Cardinality({j \in 1..(i - 1) : text[j] = NL})

\* The display column at which character i of a text starts
ColOf(text, i) ==
    LET first == LineStart(text, RowOf(text, i))
    IN  StrWidth(SubSeq(text, first + 1, i - 1))

\* The characters of a text that are in the given set of positions
Keep(text, keep) ==
    LET F[i \in 0..Len(text)] ==
            IF i = 0 THEN <<>>
            ELSE IF i \in keep THEN Append(F[i - 1], text[i]) ELSE F[i - 1]
    IN  F[Len(text)]

\* Every character of the text takes one column (newlines aside)
OneColumnText(text) == \A i \in 1..Len(text) : text[i] \in {"a", "b", NL}

\* The text without the characters of columns c..c+w-1 of rows r..r+h-1
WithoutSpan(text, region) ==
    Keep(text, {i \in 1..Len(text) :
                  \/ text[i] = NL
                  \/ RowOf(text, i) < region.from.y
                  \/ RowOf(text, i) >= region.to.y
                  \/ ColOf(text, i) < region.from.x
                  \/ ColOf(text, i) >= region.to.x})

\* C2: Document::delete(region) removes, on each row of the region, exactly
\* the characters of the region's columns (up to the end of a shorter row),
\* and nothing else, also on the last row of the document.  Stated for texts
\* of one-column characters, where a column is a character.
C2_DeleteRemovesExactlySpan ==
    (op.kind = "delete" /\ OneColumnText(op.before.text))
        => editor.doc.text = WithoutSpan(op.before.text, op.region)


\* The names a source instruction refers to
IdentKeys(inst) ==
    CASE inst.op \in {"Type", "Command", "Insert", "Popup"} ->
           IF inst.source.kind = "Ident" THEN {inst.source.v} ELSE {}
      [] inst.op = "Replace" ->
           IF inst.replacement.kind = "Ident" THEN {inst.replacement.v} ELSE {}
      [] OTHER -> {}

\* The Loads of name k before instruction i of a script
LoadsBefore(s, i, k) == {j \in 1..(i - 1) : s[j].op = "Load" /\ s[j].key = k}

\* Instruction i of a script makes compile fail
FailsAt(s, i) ==
    \/ s[i].op = "Load" /\ InitFs[s[i].path] = NoFile
    \/ \E k \in IdentKeys(s[i]) : LoadsBefore(s, i, k) = {}

\* The context the Loads before instruction i build, each name bound to the
\* file of its last Load
ContextAt(s, i) ==
    LET keys == {s[j].key : j \in {n \in 1..(i - 1) : s[n].op = "Load"}}
        last(k) == CHOOSE j \in LoadsBefore(s, i, k) :
                      \A n \in LoadsBefore(s, i, k) : n <= j
    IN  [k \in keys |-> InitFs[s[last(k)].path]]

\* The lowerings of a script's instructions, one after the other, a Load
\* giving nothing
Lowerings(s) ==
    LET F[i \in 0..Len(s)] ==
            IF i = 0 THEN <<>>
            ELSE IF s[i].op = "Load" THEN F[i - 1]
            ELSE F[i - 1] \o Lower(s[i], ContextAt(s, i)).instructions
    IN  F[Len(s)]

\* C10: compile is all or nothing: a Load of an unreadable file, or a name
\* that no earlier Load binds, gives an error and no runtime instruction;
\* otherwise compile gives the lowerings of the source instructions in source
\* order, a Load giving none.
C10_CompileAllOrNothing ==
    pc # "start" =>
        IF \E i \in 1..Len(script) : FailsAt(script, i)
        THEN ~compiled.ok /\ compiled.instructions = <<>> /\ pc = "failed"
        ELSE compiled.ok /\ compiled.instructions = Lowerings(script)

\* C10's case: a script failed on a name that only a later Load binds
C10_Witness ==
    /\ pc = "failed"
    /\ \E i \in 1..Len(script) : \E j \in (i + 1)..Len(script) :
          /\ (script[j].op = "Load" /\ InitFs[script[j].path] # NoFile)
          /\ script[j].key \in IdentKeys(script[i])
          /\ \A n \in 1..Len(script) : n # i => ~FailsAt(script, n)


\* The next call of Editor::apply pops an instruction: both buffers are empty
\* and the queue is not
PopsNext ==
    /\ pc = "loop" /\ count > 0
    /\ editor.type_command_buffer = <<>> /\ editor.type_buffer = <<>>
    /\ editor.instructions # <<>>

\* The next call of Editor::apply types a unit of the type buffer
TypesNext ==
    /\ pc = "loop" /\ count > 0
    /\ editor.type_command_buffer = <<>> /\ editor.type_buffer # <<>>

\* The calls of insert_str the next call of Editor::apply makes: the
\* position and the string
InsertCalls ==
    IF TypesNext
    THEN {[pos |-> editor.cursor, s |-> <<Head(editor.type_buffer)>>]}
    ELSE IF PopsNext /\ Head(editor.instructions).op = "Insert"
    THEN {[pos |-> Pos(0, editor.cursor.y),
           s |-> StripMarkers(Head(editor.instructions).content)]}
    ELSE {}

\* C1: after insert_str(pos, text) with k newlines in text, every marker
\* whose row was >= pos.y has its row increased by exactly k, and every
\* marker whose row was < pos.y keeps its row.
C1_InsertShiftsMarkers ==
    [][\A call \in InsertCalls :
          LET k == Cardinality(Newlines(call.s))
          IN  /\ DOMAIN editor'.doc.markers = DOMAIN editor.doc.markers
              /\ \A m \in DOMAIN editor.doc.markers :
                    editor'.doc.markers[m] =
                        IF editor.doc.markers[m] >= call.pos.y
                        THEN editor.doc.markers[m] + k
                        ELSE editor.doc.markers[m]]_vars

\* C3: a Select of size (0, 0) followed by Delete leaves the text of the
\* document unchanged.
C3_SelectZeroDeleteKeepsText ==
    [][(/\ PopsNext
        /\ Head(editor.instructions).op = "Delete"
        /\ log # <<>>
        /\ log[Len(log)] = Select(0, 0))
          => editor'.doc.text = editor.doc.text]_vars

\* Row y of a text, without its newline; no row above the first
Row(text, y) ==
    IF y < 0 THEN <<>>
    ELSE LET start == LineStart(text, y)
         IN  SubSeq(text, start + 1, LineEnd(text, start))

\* needle occurs in the sequence hay
Occurs(needle, hay) ==
    \E i \in 0..(Len(hay) - Len(needle)) :
        SubSeq(hay, i + 1, i + Len(needle)) = needle

\* C8: FindInCurrentLine with an empty needle, or with a needle that does
\* not occur in the cursor's line, is a silent no-op: cursor, markers and
\* text stay, no error is reported and the program does not crash, wherever
\* the cursor's column is.
C8_FindNoMatchIsNoOp ==
    [][(/\ PopsNext
        /\ Head(editor.instructions).op = "FindInCurrentLine"
        /\ \/ Head(editor.instructions).needle = <<>>
           \/ ~Occurs(Head(editor.instructions).needle,
                      Row(editor.doc.text, editor.cursor.y)))
          => /\ pc' # "panic"
             /\ editor' = [editor EXCEPT !.instructions = Tail(@)]
             /\ state' = state]_vars


\* C4: one call of Editor::apply does exactly one thing, in strict
\* priority: a pending unit of the command buffer is appended to the
\* displayed command text and nothing else changes; else a pending unit of
\* the type buffer is inserted into the document at the cursor; else the
\* front instruction is popped and executed; else nothing changes.  So no
\* instruction is popped while a buffer holds a unit, and nothing is typed
\* while the command buffer holds one.
C4_StrictPriority ==
    [][(pc = "loop" /\ count > 0) =>
          IF editor.type_command_buffer # <<>>
          THEN /\ editor' = [editor EXCEPT !.type_command_buffer = Tail(@)]
               /\ state' = [state EXCEPT !.command_buffer =
                               Append(@, Head(editor.type_command_buffer))]
               /\ fs' = fs /\ log' = log
          ELSE IF editor.type_buffer # <<>>
          THEN /\ editor'.type_buffer = Tail(editor.type_buffer)
               /\ editor'.doc.text =
                     StringInsert(editor.doc.text,
                                  byte_offset(editor.doc.text, editor.cursor),
                                  <<Head(editor.type_buffer)>>)
               /\ editor'.instructions = editor.instructions
               /\ state' = state /\ fs' = fs /\ log' = log
          ELSE IF editor.instructions # <<>>
          THEN /\ log' = Append(log, Head(editor.instructions))
               /\ \/ editor'.instructions = <<>>
                  \/ \E n \in 0..1 :
                        /\ Len(editor'.instructions) = Len(editor.instructions) - 1 + n
                        /\ SubSeq(editor'.instructions, n + 1, Len(editor'.instructions))
                              = Tail(editor.instructions)
          ELSE /\ editor' = editor /\ state' = state /\ fs' = fs
               /\ log' = log]_vars

\* C4's case: a unit of the type buffer is pending while instructions are
\* queued, and units were typed before
C4_Witness ==
    /\ pc = "loop" /\ count > 0
    /\ editor.type_buffer # <<>>
    /\ editor.instructions # <<>>
    /\ editor.doc.text # <<>>

\* Entry i of the log was pushed at run time: an AddMarkers, or the Wait
\* that follows ClearCommandWait
Pushed(l, i) ==
    \/ l[i].op = "AddMarkers"
    \/ l[i].op = "Wait" /\ i > 1 /\ l[i - 1].op = "ClearCommandWait"

\* The log without the entries pushed at run time
Unpushed(l) ==
    LET F[i \in 0..Len(l)] ==
            IF i = 0 THEN <<>>
            ELSE IF Pushed(l, i) THEN F[i - 1]
            ELSE Append(F[i - 1], l[i])
    IN  F[Len(l)]

\* The queue without the instruction pushed to its front, if there is one
QueuedCompiled ==
    IF /\ editor.instructions # <<>>
       /\ Pushed(Append(log, Head(editor.instructions)), Len(log) + 1)
    THEN Tail(editor.instructions)
    ELSE editor.instructions

\* C5: the instructions compile gave are executed in their order, none
\* repeated and, without an error, none skipped; the only other instructions
\* executed are AddMarkers, the very next after the LoadTypeBuffer or Insert
\* that pushed it, and Wait, the very next after ClearCommandWait.
C5_CompiledOrder ==
    pc \in {"idle", "loop", "panic", "hang"} =>
        /\ Len(Unpushed(log)) <= Len(compiled.instructions)
        /\ Unpushed(log) = SubSeq(compiled.instructions, 1, Len(Unpushed(log)))
        /\ (state.error = "" /\ pc # "panic")
              => Unpushed(log) \o QueuedCompiled = compiled.instructions
        /\ \A i \in 1..Len(log) :
              /\ log[i].op = "AddMarkers"
                    => i > 1 /\ log[i - 1].op \in {"LoadTypeBuffer", "Insert"}
              /\ (i > 1 /\ log[i - 1].op = "ClearCommandWait")
                    => log[i].op = "Wait"

\* C5's case: a run that ended without error after an AddMarkers and a Wait
\* were pushed and executed
C5_Witness ==
    /\ pc = "idle" /\ state.error = ""
    /\ editor.instructions = <<>>
    /\ Unpushed(log) = compiled.instructions
    /\ \E i \in 1..Len(log) : log[i].op = "AddMarkers"
    /\ \E i \in 2..Len(log) : log[i].op = "Wait" /\ log[i - 1].op = "ClearCommandWait"

\* C6: when a run-time error is raised the message is set and the queue of
\* instructions is emptied; from then on no instruction executes and the
\* text, the markers and the cursor never change again.
C6_ErrorStopsPlayback ==
    [][/\ (state.error = "" /\ state'.error # "")
            => editor'.instructions = <<>>
       /\ state.error # ""
            => /\ editor'.doc = editor.doc
               /\ editor'.cursor = editor.cursor
               /\ log' = log]_vars

\* C7: WriteBuffer(path) while a file exists at path never creates,
\* truncates or writes it, sets the error message, empties the queue and
\* leaves document and cursor; a file is written only by a WriteBuffer whose
\* path did not exist when it executed.
C7_WriteBufferNeverOverwrites ==
    [][/\ (/\ PopsNext
           /\ Head(editor.instructions).op = "WriteBuffer"
           /\ fs[Head(editor.instructions).path] # NoFile)
            => /\ fs' = fs
               /\ state'.error = "file already exists"
               /\ editor'.instructions = <<>>
               /\ editor'.doc = editor.doc
               /\ editor'.cursor = editor.cursor
       /\ fs' # fs
            => /\ PopsNext
               /\ Head(editor.instructions).op = "WriteBuffer"
               /\ fs[Head(editor.instructions).path] = NoFile
               /\ \A p \in Paths :
                     p # Head(editor.instructions).path => fs'[p] = fs[p]]_vars

\* C7's case: WriteBuffer was executed on a path that held a file, after
\* the document got a text
C7_Witness ==
    /\ log # <<>>
    /\ log[Len(log)].op = "WriteBuffer"
    /\ InitFs[log[Len(log)].path] # NoFile
    /\ state.error = "file already exists"
    /\ editor.doc.text # <<>>

\* The script with every Replace written as the four directives
ExpandReplace(s) ==
    LET F[i \in 0..Len(s)] ==
            IF i = 0 THEN <<>>
            ELSE IF s[i].op = "Replace"
            THEN F[i - 1] \o <<SrcFind(s[i].src, 1),
                               SrcSelect(StrWidth(s[i].src), 1),
                               SrcDelete,
                               SrcType(s[i].replacement, FALSE, FALSE)>>
            ELSE Append(F[i - 1], s[i])
    IN  F[Len(s)]

\* C9: Replace{needle, replacement} runs as Find(needle, 1); Select(width
\* of needle, 1); Delete; Type(replacement) does: compile gives both scripts
\* the same instructions, so the editor built from either is the same state
\* and, apply being a function of that state, so is every state that
\* follows.
C9_ReplaceIsFindSelectDeleteType ==
    pc # "start" =>
        /\ compiled = compile(ExpandReplace(script), InitFs)
        /\ pc = "idle" =>
              editor = EditorNew(compile(ExpandReplace(script), InitFs).instructions,
                                 editor.frame_timer.frame_time)

\* C9's case: a script with a Replace of a wide needle was compiled and the
\* editor built
C9_Witness ==
    /\ pc = "idle"
    /\ \E i \in 1..Len(script) :
          script[i].op = "Replace" /\ StrWidth(script[i].src) # Len(script[i].src)
    /\ Len(editor.instructions) >= 4


\* C12: tick(dt) while a wait w > 0 with w >= dt is active returns 0 steps,
\* leaves the accumulator, applies and resamples no jitter, and leaves the
\* wait w - dt.
C12_WaitAbsorbsTick ==
    (op.kind = "tick" /\ op.before.wait > 0 /\ op.before.wait >= op.dt)
        => /\ op.count = 0
           /\ editor.frame_timer =
                 [op.before EXCEPT !.wait = op.before.wait - op.dt]

\* C12's case: a tick whose dt equals the wait, while a jitter is held
C12_Witness ==
    /\ op.kind = "tick"
    /\ op.before.wait > 0
    /\ op.before.wait = op.dt
    /\ op.before.jitter > 0

\* C13: a tick with no wait active adds the jitter sampled before to dt, so
\* it returns the whole frames in accumulator + dt + previous jitter, and
\* then samples a new jitter that it holds.
C13_JitterAddedToDt ==
    (op.kind = "tick" /\ op.before.wait = 0)
        => /\ op.count = (op.before.accumulator + op.dt + op.before.jitter)
                            \div op.before.frame_time
           /\ editor.frame_timer.jitter \in
                 {FromMillis(r) : r \in 0..op.before.jitter_ms}

\* C13, amended: a tick with no wait active makes the jitter sampled before
\* the timer's wait and accumulates dt alone: it returns the whole frames in
\* accumulator + dt and keeps the rest; it then samples a new jitter within
\* the bound, which it holds.
C13_JitterBecomesWait ==
    (op.kind = "tick" /\ op.before.wait = 0)
        => /\ op.count = (op.before.accumulator + op.dt) \div op.before.frame_time
           /\ editor.frame_timer.accumulator =
                 (op.before.accumulator + op.dt) % op.before.frame_time
           /\ editor.frame_timer.wait = op.before.jitter
           /\ editor.frame_timer.jitter \in
                 {FromMillis(r) : r \in 0..op.before.jitter_ms}

\* C13's case: a tick with no wait and a held jitter that, added to dt,
\* would have made one more frame
C13_Witness ==
    /\ op.kind = "tick"
    /\ op.before.wait = 0
    /\ op.before.jitter > 0
    /\ (op.before.accumulator + op.dt + op.before.jitter) \div op.before.frame_time
          # (op.before.accumulator + op.dt) \div op.before.frame_time

\* C14: with a positive frame time f, a jitter bound of 0 and no wait, any
\* sequence of ticks from an empty accumulator returns floor(sum of dt / f)
\* steps in all, and the accumulator holds the rest, less than f.
C14_StepsDependOnElapsedOnly ==
    (op.kind = "tick" /\ op.run)
        => /\ op.steps = op.elapsed \div editor.frame_timer.frame_time
           /\ editor.frame_timer.accumulator =
                 op.elapsed % editor.frame_timer.frame_time
           /\ editor.frame_timer.accumulator < editor.frame_timer.frame_time

\* C14, amended: the same, for a timer that also holds no jitter sampled
\* before the bound became 0.
C14_StepsDependOnElapsedNoHeldJitter ==
    (op.kind = "tick" /\ op.run /\ op.held = 0)
        => /\ op.steps = op.elapsed \div editor.frame_timer.frame_time
           /\ editor.frame_timer.accumulator =
                 op.elapsed % editor.frame_timer.frame_time
           /\ editor.frame_timer.accumulator < editor.frame_timer.frame_time

\* C14's case: a later tick of such a sequence, shorter than a frame, that
\* returned a step
C14_Witness ==
    /\ op.kind = "tick" /\ op.run /\ op.held = 0
    /\ op.elapsed > op.dt
    /\ op.dt < editor.frame_timer.frame_time
    /\ op.count = 1


\* The position of a byte offset of a text: the row is the number of
\* newlines before it, the column the display width of what its row holds
\* before it
PosOfOffset(text, b) ==
    LET n     == CharsBefore(text, b)
        nls   == {i \in Newlines(text) : i <= n}
        first == IF nls = {} THEN 0 ELSE CHOOSE i \in nls : \A j \in nls : j <= i
    IN  Pos(StrWidth(SubSeq(text, first + 1, n)), Cardinality(nls))

\* A position within a text: on one of its rows, at a column of that row
\* or right after its last one
Within(text, pos) ==
    /\ pos.y >= 0 /\ pos.y <= Cardinality(Newlines(text))
    /\ pos.x >= 0 /\ pos.x <= StrWidth(Row(text, pos.y))

\* The column is one at which a character of the row starts, or the end of
\* the row
OnBoundary(text, pos) ==
    \E k \in 0..Len(Row(text, pos.y)) :
        StrWidth(SubSeq(Row(text, pos.y), 1, k)) = pos.x

\* C11: for every position P within a document, byte_offset(P) and the
\* position re-derived from that byte offset give the row and the display
\* column of P.
C11_ByteOffsetRoundTrip ==
    (op.kind = "byte_offset" /\ Within(op.before.doc.text, op.before.cursor))
        => PosOfOffset(op.before.doc.text, op.result) = op.before.cursor

\* C11, amended: the round trip holds for the positions within a document
\* whose column is one where a character of the row starts, or the end of
\* the row (not the second column of a character two columns wide).
C11_ByteOffsetRoundTripOnBoundary ==
    (/\ op.kind = "byte_offset"
     /\ Within(op.before.doc.text, op.before.cursor)
     /\ OnBoundary(op.before.doc.text, op.before.cursor))
        => PosOfOffset(op.before.doc.text, op.result) = op.before.cursor

\* C11's case: byte_offset of a position on the second row, after a wide
\* character and a character of no width
C11_Witness ==
    /\ op.kind = "byte_offset"
    /\ Within(op.before.doc.text, op.before.cursor)
    /\ OnBoundary(op.before.doc.text, op.before.cursor)
    /\ op.before.cursor.y = 1
    /\ op.before.cursor.x = 2
    /\ Row(op.before.doc.text, 1) = <<"W", "Z">>


\* The characters of a row (counted from 0) at which the needle starts, at
\* or after display column x
OccurrencesFrom(row, needle, x) ==
    {k \in 0..(Len(row) - Len(needle)) :
        /\ SubSeq(row, k + 1, k + Len(needle)) = needle
        /\ StrWidth(SubSeq(row, 1, k)) >= x}

\* The n-th of them
NthOccurrence(row, needle, x, n) ==
    CHOOSE k \in OccurrencesFrom(row, needle, x) :
        Cardinality({j \in OccurrencesFrom(row, needle, x) : j <= k}) = n

\* C15: when the needle is not empty and occurs count times or more on the
\* cursor's line at or after the cursor's column, FindInCurrentLine sets the
\* cursor's column to the display column where the count-th occurrence
\* starts, plus the needle's width - 1 when end_of_word is set; the row, the
\* document and the selection stay.  Also with characters whose width or
\* byte length is not 1, and for any cursor column on the line.
C15_FindMovesToMatch ==
    (/\ op.kind = "exec"
     /\ op.inst.op = "FindInCurrentLine"
     /\ op.inst.needle # <<>>
     /\ Cardinality(OccurrencesFrom(Row(op.before.doc.text, op.before.cursor.y),
                                    op.inst.needle, op.before.cursor.x))
           >= op.inst.count)
        => LET row == Row(op.before.doc.text, op.before.cursor.y)
               k   == NthOccurrence(row, op.inst.needle, op.before.cursor.x,
                                    op.inst.count)
               col == StrWidth(SubSeq(row, 1, k))
                         + (IF op.inst.end_of_word
                            THEN StrWidth(op.inst.needle) - 1 ELSE 0)
           IN  /\ pc # "panic"
               /\ editor = [op.before EXCEPT !.cursor.x = col]


\* The cursor stands on a character of the text
OnCharacter(text, pos) ==
    Within(text, pos) /\ pos.x < StrWidth(Row(text, pos.y))

\* C17: Delete with a selection removes exactly the selected region, puts
\* the cursor on the selection's origin and leaves no selection; Delete
\* without a selection removes exactly the one cell under the cursor and
\* does not move the cursor, for every cursor that is on a character, the
\* last character of the document included; a selection is active exactly
\* between a Select of non-zero size and the next Delete.  Stated for texts
\* of one-column characters, where a cell is a character.
C17_DeleteRemovesSelectionOrCell ==
    /\ (/\ op.kind = "exec"
        /\ op.inst = Delete
        /\ op.before.selected_range.some
        /\ OneColumnText(op.before.doc.text))
          => /\ pc # "panic"
             /\ editor.doc.text = WithoutSpan(op.before.doc.text,
                                              op.before.selected_range.region)
             /\ editor.cursor = op.before.selected_range.region.from
             /\ ~editor.selected_range.some
    /\ (/\ op.kind = "exec"
        /\ op.inst = Delete
        /\ ~op.before.selected_range.some
        /\ OneColumnText(op.before.doc.text)
        /\ OnCharacter(op.before.doc.text, op.before.cursor))
          => /\ pc # "panic"
             /\ editor.doc.text = WithoutSpan(op.before.doc.text,
                                     RegionFrom(op.before.cursor, Size(1, 1)))
             /\ editor.cursor = op.before.cursor
             /\ ~editor.selected_range.some
    /\ editor.selected_range.some
          <=> (op.kind = "exec" /\ op.inst.op = "Select"
                  /\ op.inst.size # SizeZERO)


\* The cursor after the units of s have been typed from pos: each unit
\* advances it by its width, a newline takes it to column 0 of the next row
CursorAfter(pos, s) ==
    LET F[i \in 0..Len(s)] ==
            IF i = 0 THEN pos
            ELSE IF s[i] = NL THEN Pos(0, F[i - 1].y + 1)
            ELSE Pos(F[i - 1].x + CharWidth(s[i]), F[i - 1].y)
    IN  F[Len(s)]

\* C19: typing is one atomic insertion.  For every document, cursor and
\* content s of a LoadTypeBuffer: once the type buffer has drained, the text
\* is the text with s inserted as one string, its units in order, at the
\* offset the cursor addressed when the typing began; and after each typed
\* unit the cursor has advanced by the unit's width, or has gone to column 0
\* of the next row on a newline.
C19_TypingIsOneInsertion ==
    (op.kind = "exec" /\ op.inst.op = "LoadTypeBuffer")
        => LET s     == op.inst.content
               typed == SubSeq(s, 1, Len(s) - Len(editor.type_buffer))
           IN  /\ pc # "panic"
               /\ editor.cursor = CursorAfter(op.before.cursor, typed)
               /\ editor.type_buffer = <<>>
                     => editor.doc.text =
                           StringInsert(op.before.doc.text,
                               byte_offset(op.before.doc.text, op.before.cursor),
                               s)


\* The last instruction executed is a LoadTypeBuffer whose content holds
\* markers, and no error has emptied the queue since
TypingMarked ==
    /\ log # <<>>
    /\ log[Len(log)].op = "LoadTypeBuffer"
    /\ generate(log[Len(log)].content).some
    /\ state.error = ""
    /\ pc # "panic"

\* While the marked content is typed: the AddMarkers is the front of the
\* queue, the type buffer holds the units not typed yet, and the row the
\* AddMarkers carries is the row the cursor had before the units typed so
\* far, the row where the typed content begins
MarkersPending ==
    LET g     == generate(log[Len(log)].content)
        s     == g.text
        n     == Len(s) - Len(editor.type_buffer)
    IN  /\ editor.instructions # <<>>
        /\ Head(editor.instructions).op = "AddMarkers"
        /\ Head(editor.instructions).markers = g.markers
        /\ n >= 0
        /\ editor.type_buffer = SubSeq(s, n + 1, Len(s))
        /\ editor.cursor.y >= 0
        /\ Head(editor.instructions).row
              = editor.cursor.y - Cardinality(Newlines(SubSeq(s, 1, n)))

WaitStarted ==
    IF PopsNext /\ Head(editor.instructions).op = "Wait"
    THEN Head(editor.instructions).dur
    ELSE IF TypesNext /\ Head(editor.type_buffer) = NL /\ editor.line_pause > 0
    THEN editor.line_pause
    ELSE -1

\* C18: when the interpreter starts a wait, by a Wait(d) or by typing a
\* newline under a line pause p > 0, the timer's wait is set to d or p and
\* no further step is performed in the same tick, however many steps the
\* timer granted; the ticks that follow perform no step until the wait has
\* been consumed by the time elapsed: a tick that meets a wait w > 0 either
\* takes its dt <= w off the wait and performs no step, or has a dt > w.
C18_WaitEndsTick ==
    [][/\ WaitStarted >= 0
          => /\ editor'.frame_timer.wait = WaitStarted
             /\ pc' = "loop" /\ count' = 0
       /\ (pc = "idle" /\ editor.frame_timer.wait > 0)
          => \E dt \in Dts :
                IF dt <= editor.frame_timer.wait
                THEN /\ editor'.frame_timer =
                           [editor.frame_timer EXCEPT !.wait = @ - dt]
                     /\ count' = 0 /\ pc' = "idle"
                     /\ log' = log /\ editor'.doc = editor.doc
                ELSE editor'.frame_timer.wait = 0]_vars

\* C18's case: a Wait of one second was started, the tick ended, and the
\* next tick has taken its half second off the wait without a step
C18_Witness ==
    /\ pc = "idle"
    /\ log # <<>> /\ log[Len(log)] = Wait(FromSecs(1))
    /\ editor.instructions # <<>>
    /\ editor.frame_timer.wait = FromSecs(1) - FromMillis(500)


\* The instructions executed since the last LoadCommandBuffer
SinceLoad ==
    LET loads == {i \in 1..Len(log) : log[i].op = "LoadCommandBuffer"}
        last  == CHOOSE i \in loads : \A j \in loads : j <= i
    IN  SubSeq(log, last + 1, Len(log))

\* C20: for every compiled Command (LoadCommandBuffer, ClearCommandWait,
\* ClearCommandBuffer) the displayed command text is cleared only after
\* every unit of the command has been emitted into it, and after a wait of
\* the timer equal to the command_clear_timeout in force when
\* ClearCommandWait executed has been started and has elapsed; between
\* LoadCommandBuffer and ClearCommandBuffer no other compiled instruction
\* executes and the document is not modified.
C20_CommandClearedAfterWait ==
    [][op.active =>
          /\ editor'.doc = op.doc
          /\ log' # log =>
                /\ \/ SinceLoad = <<>> /\ log' = Append(log, ClearCommandWait)
                   \/ /\ SinceLoad = <<ClearCommandWait>>
                      /\ log' = Append(log, Wait(op.timeout))
                      /\ editor'.frame_timer.wait = op.timeout
                   \/ /\ SinceLoad = <<ClearCommandWait, Wait(op.timeout)>>
                      /\ log' = Append(log, ClearCommandBuffer)
                      /\ state.command_buffer = op.content
                      /\ state'.command_buffer = <<>>
                      /\ op.timeout >= 0
                      /\ op.started = op.timeout
                      /\ op.elapsed >= op.started
                /\ editor.type_command_buffer = <<>>
          /\ state'.command_buffer # state.command_buffer =>
                \/ /\ editor.type_command_buffer # <<>>
                   /\ state'.command_buffer =
                         Append(state.command_buffer,
                                Head(editor.type_command_buffer))
                \/ log' = Append(log, ClearCommandBuffer)]_vars

\* C20's case: a command of two units was emitted under a timeout of half
\* a second set by the script, the wait has elapsed, the text was cleared,
\* and the document still is what it was
C20_Witness ==
    /\ op.kind = "command"
    /\ ~op.active
    /\ op.content = <<"a", "b">>
    /\ op.timeout = FromMillis(500)
    /\ op.started = op.timeout
    /\ op.elapsed >= op.started
    /\ log # <<>> /\ log[Len(log)] = ClearCommandBuffer
    /\ state.command_buffer = <<>>
    /\ editor.doc = op.doc


\* C23: in every reachable state the cursor's column and row are both >= 0,
\* also after a Jump with negative deltas and after a Select whose size has
\* exactly one of width and height 0.
C23_CursorNonNegative == editor.cursor.x >= 0 /\ editor.cursor.y >= 0


\* C21: in every reachable state every registered marker's row is the index
\* of a row of the document's text (a text with k newlines has the rows
\* 0..k), also after a Jump past the last row followed by content with
\* markers, and after Delete.
C21_MarkerRowsExist ==
    \A m \in DOMAIN editor.doc.markers :
        /\ editor.doc.markers[m] >= 0
        /\ editor.doc.markers[m] <= Cardinality(Newlines(editor.doc.text))


\* The next call of Editor::apply makes the first insertion since the
\* cursor was moved: until then every marker's row begins with the content
\* the marker was registered with
FirstInsertion ==
    /\ log # <<>>
    /\ \/ PopsNext /\ log[Len(log)].op = "Jump"
       \/ /\ TypesNext
          /\ Len(log) > 1
          /\ log[Len(log)].op = "LoadTypeBuffer"
          /\ log[Len(log) - 1].op = "Jump"
          /\ editor.type_buffer = StripMarkers(log[Len(log)].content)

\* C22: markers track the content they were anchored to.  For every marker
\* on a row that holds text and every insertion (Insert, or a typed unit)
\* at any position, also on the marker's own row at a column > 0 or at its
\* end: after the insertion the marker's row is the row of the character
\* that began the marker's row before the insertion.  Stated for the first
\* insertion after the cursor was moved.
C22_MarkersTrackContent ==
    [][FirstInsertion =>
         \A call \in InsertCalls :
            \A m \in DOMAIN editor.doc.markers :
               LET r  == editor.doc.markers[m]
                   s  == LineStart(editor.doc.text, r)
                   at == char_offset(editor.doc.text, call.pos)
                   s1 == IF at <= s THEN s + Len(call.s) ELSE s
               IN  (/\ r >= 0 /\ r <= Cardinality(Newlines(editor.doc.text))
                    /\ Row(editor.doc.text, r) # <<>>
                    /\ call.pos.x >= 0 /\ call.pos.y >= 0)
                      => /\ m \in DOMAIN editor'.doc.markers
                         /\ editor'.doc.markers[m]
                               = RowOf(editor'.doc.text, s1 + 1)]_vars


\* C24: Timer::tick terminates and returns a finite number of steps for
\* every dt and every frame time a compiled Speed(N) can install, N any
\* non-negative integer, also N > 1_000_000, whose frame time is 0
\* microseconds.
C24_TickTerminates == pc # "hang"


\* C26: time spent waiting is never counted toward steps.  A tick that
\* meets a wait w with 0 < w < dt ends the wait and adds only dt - w to the
\* accumulator: it returns the whole frames in accumulator + (dt - w).
C26_WaitedTimeNotCounted ==
    (op.kind = "tick" /\ op.before.wait > 0 /\ op.before.wait < op.dt)
        => LET left == op.before.accumulator + (op.dt - op.before.wait)
           IN  /\ editor.frame_timer.wait = 0
               /\ op.count = left \div op.before.frame_time
               /\ editor.frame_timer.accumulator = left % op.before.frame_time


\* The Delete of a Replace is next, and the needle of the Replace does not
\* occur on the line at or after the column where its search began (the
\* origin of the selection: a search without a match leaves the cursor)
DeleteOfReplaceWithoutMatch ==
    /\ PopsNext
    /\ Head(editor.instructions).op = "Delete"
    /\ Len(editor.instructions) > 1
    /\ editor.instructions[2].op = "LoadTypeBuffer"
    /\ Len(log) > 1
    /\ log[Len(log)].op = "Select"
    /\ log[Len(log) - 1].op = "FindInCurrentLine"
    /\ editor.selected_range.some
    /\ LET from == editor.selected_range.region.from
       IN  OccurrencesFrom(Row(editor.doc.text, from.y),
                           log[Len(log) - 1].needle, from.x) = {}

\* C27: when the needle of a Replace does not occur on the cursor's line at
\* or after the cursor's column, the instructions compiled from the Replace
\* leave the text as it is: nothing is deleted and the replacement is not
\* typed.  Stated for the Delete of the Replace, the first of its
\* instructions that can change the text.
C27_ReplaceWithoutMatchKeepsText ==
    [][DeleteOfReplaceWithoutMatch => editor'.doc.text = editor.doc.text]_vars


\* The queue of instructions, the type buffer and the command buffer are
\* empty
AllEmpty ==
    /\ editor.instructions = <<>>
    /\ editor.type_buffer = <<>>
    /\ editor.type_command_buffer = <<>>

\* C25: playback always completes.  For every compiled stream with a
\* positive frame time, when the host keeps calling on_tick with a positive
\* dt, eventually the queue, the type buffer and the command buffer are all
\* empty (every instruction was executed, or discarded by an error) and
\* stay empty: no wait, line pause or jitter postpones progress forever.
C25_PlaybackCompletes == <>[]AllEmpty

\* C25's case: a playback that typed under a line pause, waited a second
\* and then executed its last instruction
C25_Witness ==
    /\ pc = "idle"
    /\ AllEmpty
    /\ state.error = ""
    /\ editor.line_pause > 0
    /\ Len(log) > 1
    /\ log[Len(log)] = Delete
    /\ log[Len(log) - 1] = Wait(FromSecs(1))


====
